---- MODULE Spec2Model ----
(***************************************************************************)
(* Model of pages/templateGenerator.js: the clause registry (the four      *)
(* Map objects), the feature-file composer generateFeatureFile, the        *)
(* scaffold composer and form handler generateTemplateFile, and the        *)
(* exporter downloadFiles.                                                 *)
(*                                                                         *)
(* Text.  A JavaScript string is modelled as a sequence of tokens; string  *)
(* concatenation (+ and +=) is sequence concatenation (\o).  A literal of  *)
(* the source is cut into tokens at its line feeds, each "\n" that ends a  *)
(* feature-file line being a token of its own; a clause phrase and a code  *)
(* template of the registry is one token; a text typed into a form field   *)
(* contributes one token per character.  Form fields are single-line text  *)
(* inputs: their values hold no line feed.                                 *)
(***************************************************************************)
EXTENDS Integers, Sequences, FiniteSets, TLC

VARIABLES
    featureFileString,       \* global, line 5
    testScaffoldStringSave,  \* global, line 6
    featureFilepath,         \* global, line 7
    testScaffoldSFilePath,   \* global, line 8
    fileStringsInitialized,  \* global, line 9
    whenString,              \* implicit global assigned at line 138
    featureFileView,         \* innerHTML assigned to #featureFile, line 90
    testScaffoldView,        \* innerHTML assigned to #testScaffold, line 156
    handedOff,               \* files given to the browser by the latest call
    raised,                  \* exception the latest call ended with ("none": it returned)
    lastCall,                \* the function called last
    request,                 \* form state read by the latest generateTemplateFile
    featureArgs,             \* arguments of the latest generateFeatureFile
    generations,             \* completed generateTemplateFile calls
    memo,                    \* one earlier generation, remembered: request and artifacts
    text,                    \* input of the sanitizer run on its own
    identifier,              \* its output
    sanitized                \* whether it has run

cache == <<featureFileString, testScaffoldStringSave, featureFilepath,
           testScaffoldSFilePath, fileStringsInitialized>>
page == <<whenString, featureFileView, testScaffoldView>>
sanitizerVars == <<text, identifier, sanitized>>
vars == <<cache, page, handedOff, raised, lastCall, request, featureArgs,
          generations, memo, sanitizerVars>>

-----------------------------------------------------------------------------
(* Bounds *)

MaxGenerations == 3
MaxGiven == 2
MaxThen == 2
MaxLen == 3

-----------------------------------------------------------------------------
(* Sequence helpers *)

RECURSIVE Flatten(_)
Flatten(ss) == IF ss = <<>> THEN <<>> ELSE Head(ss) \o Flatten(Tail(ss))

Range(s) == {s[i] : i \in 1..Len(s)}

SeqsUpTo(S, n) == UNION {[1..k -> S] : k \in 0..n}

-----------------------------------------------------------------------------
(* The clause registry, lines 10-64 *)

generalMapping ==
    [generic |->
       "import pytest_bdd\nfrom conftest import O3_BASE_URL\nimport string\nimport random\nimport time\nimport re\nimport pytest\nfrom pytest_bdd import scenarios, given, when, then, parsers\nfrom playwright.sync_api import Page, expect\nimport sys\nimport os\nsys.path.insert(0, os.path.join(os.path.dirname(__file__), '..', '..', 'assets'))\nfrom sharedBDDFunctions import *\n\nO3_LOGIN_URL = f'{O3_BASE_URL}/login'\nO3_WELCOME_URL = f'{O3_BASE_URL}/login/location'\nO3_HOMEPAGE_URL = f'{O3_BASE_URL}/home/service-queues#'\n\n"]

givenMapping ==
    [givenLoginPageDisplayed |->
       "@given(\"the OpenMRS 3 login page is displayed\")\ndef navigate_to_login(page):\n    return navigateToLogin(page)\n",
     givenLoggedInto |->
       "@given(\"logged into OpenMRS O3\")\ndef user_login(page):\n    return login(page)\n",
     givenTestPatientCreated |->
       "@given(\"a test patient has been created\")\ndef navigate_to_test_patient(page):\n    return navigateToTestPatient(page)\n",
     givenEditPatientPageDisplayed |->
       "@given(\"the OpenMRS 3 edit patient page is displayed\")\ndef verify_test_patient(page):\n    return verifyTestPatientExists(page)\n"]

thenMapping ==
    [reportCVSS |->
       "@then(\"Calculate CVSS score\")\ndef calculate_cvss_score():\n    return calculateCVSSScore()\n\n"]

givenThenToFeatureFileMapping ==
    [givenLoginPageDisplayed |-> "the OpenMRS 3 login page is displayed",
     givenLoggedInto |-> "logged into OpenMRS O3",
     givenTestPatientCreated |-> "a test patient has been created",
     givenEditPatientPageDisplayed |-> "the OpenMRS 3 edit patient page is displayed",
     reportCVSS |-> "Calculate CVSS score"]

\* Map.prototype.get followed by string concatenation: a missing key gives
\* undefined, which + turns into the text "undefined".
MapGet(map, key) == IF key \in DOMAIN map THEN map[key] ELSE "undefined"

\* The checkboxes generateTemplateFile reads, in the order it reads them.
givenCheckboxes == <<"givenLoginPageDisplayed", "givenLoggedInto",
                     "givenTestPatientCreated", "givenEditPatientPageDisplayed">>
thenCheckboxes == <<"reportCVSS">>

-----------------------------------------------------------------------------
(* String.prototype.replaceAll and replace with a one-character pattern *)

RECURSIVE replaceAll(_, _, _)
replaceAll(s, pattern, replacement) ==
    IF s = <<>> THEN <<>>
    ELSE (IF Head(s) = pattern THEN replacement ELSE <<Head(s)>>)
         \o replaceAll(Tail(s), pattern, replacement)

RECURSIVE replace(_, _, _)
replace(s, pattern, replacement) ==
    IF s = <<>> THEN <<>>
    ELSE IF Head(s) = pattern THEN replacement \o Tail(s)
    ELSE <<Head(s)>> \o replace(Tail(s), pattern, replacement)

\* Lines 138-142: the value left in the global whenString.
whenStringFirstOnly(testing) ==
    replace(replace(replace(replace(replace(testing,
        " ", <<"_">>), ",", <<>>), ":", <<>>), ";", <<>>), " ", <<"_">>)

whenStringOf(testing) ==
    replaceAll(replaceAll(replaceAll(replaceAll(replaceAll(testing,
        " ", <<"_">>), ",", <<>>), ":", <<>>), ";", <<>>), " ", <<"_">>)

\* Lines 138-145: the identifier that follows "def test_" in the scaffold.
sanitize(testing) == replace(whenStringOf(testing), " ", <<"_">>)

-----------------------------------------------------------------------------
(* generateFeatureFile, lines 77-91 *)

\* Line 79 written with += in place of =.
FeatureFirstLineAppended(when) ==
    featureFileString \o <<"Feature:">> \o when \o <<"\n">>

\* Line 79: featureFileString = "Feature:"+when+"\n"
FeatureFirstLine(when) == <<"Feature:">> \o when \o <<"\n">>

\* The loop of lines 81-83 stopping one element early.
GivenFeatureLinesShort(givenStmts) ==
    Flatten([i \in 1..(Len(givenStmts) - 1) |->
        <<"    Given ", MapGet(givenThenToFeatureFileMapping, givenStmts[i]), "\n">>])

\* Lines 81-83.
GivenFeatureLines(givenStmts) ==
    Flatten([i \in 1..Len(givenStmts) |->
        <<"    Given ", MapGet(givenThenToFeatureFileMapping, givenStmts[i]), "\n">>])

\* Lines 86-88.
ThenFeatureLines(thenStmts) ==
    Flatten([i \in 1..Len(thenStmts) |->
        <<"\n", "    Then ", MapGet(givenThenToFeatureFileMapping, thenStmts[i]), "\n">>])

\* Lines 79-88: the value of featureFileString when the function returns.
FeatureFileText(when, givenStmts, thenStmts) ==
    FeatureFirstLine(when)
    \o <<"  A description for your feature file", "\n", "  Background:", "\n">>
    \o GivenFeatureLines(givenStmts)
    \o <<"\n", "  Scenario:">> \o when \o <<"\n">>
    \o <<"    When ">> \o when
    \o ThenFeatureLines(thenStmts)

\* generateFeatureFile with its first two arguments taken in the wrong order.
generateFeatureFileSwapped(filename, when, givenStmts, thenStmts) ==
    /\ featureFilepath' = when
    /\ featureFileString' = FeatureFileText(filename, givenStmts, thenStmts)
    /\ featureFileView' = featureFileString'
    /\ featureArgs' = [filename |-> filename, when |-> when,
                       givenStmts |-> givenStmts, thenStmts |-> thenStmts]

generateFeatureFile(filename, when, givenStmts, thenStmts) ==
    /\ featureFilepath' = filename
    /\ featureFileString' = FeatureFileText(when, givenStmts, thenStmts)
    /\ featureFileView' = featureFileString'
    /\ featureArgs' = [filename |-> filename, when |-> when,
                       givenStmts |-> givenStmts, thenStmts |-> thenStmts]

-----------------------------------------------------------------------------
(* generateTemplateFile, lines 92-160 *)

\* Lines 95-98 and 104: the ids of the checked boxes, pushed in the order read.
CheckedIn(checkboxes, checked) ==
    LET isChecked(id) == id \in checked IN SelectSeq(checkboxes, isChecked)

\* The loop of lines 132-136 run from the last element to the first.
GivenBlocksReversed(givenStmts) ==
    Flatten([i \in 1..Len(givenStmts) |->
        <<MapGet(givenMapping, givenStmts[Len(givenStmts) + 1 - i]), "\n">>])

\* Lines 132-136.
GivenBlocks(givenStmts) ==
    Flatten([i \in 1..Len(givenStmts) |-> <<MapGet(givenMapping, givenStmts[i]), "\n">>])

\* Lines 151-155.
ThenBlocks(thenStmts) ==
    Flatten([i \in 1..Len(thenStmts) |-> <<MapGet(thenMapping, thenStmts[i]), "\n">>])

\* Line 143.
ScenarioDecorator(location, featureFileName, testing) ==
    <<"@pytest_bdd.scenario('tests/">> \o location \o <<"/">> \o featureFileName
    \o <<".feature','">> \o testing \o <<"',features_base_dir='')", "\n">>

\* Lines 144-148.
WhenStep(testing, ws) ==
    <<"@when('">> \o testing \o <<"')", "\n", "def test_">>
    \o replace(ws, " ", <<"_">>)
    \o <<"(page:Page):", "\n", "    #your test code here", "\n", "    return", "\n">>

\* Lines 108-155: the value of the local testScaffoldString at line 156.
ScaffoldText(location, featureFileName, testing, ws, givenStmts, thenStmts) ==
    <<generalMapping.generic>>
    \o GivenBlocks(givenStmts)
    \o ScenarioDecorator(location, featureFileName, testing)
    \o WhenStep(testing, ws)
    \o ThenBlocks(thenStmts)

generateTemplateFile(form) ==
    LET givenStmts == CheckedIn(givenCheckboxes, form.checked)
        thenStmts == CheckedIn(thenCheckboxes, form.checked)
        filename == form.testFilenameSTMT
        featureFileName == form.featureFilenameSTMT
        location == form.locationSTMT
        testing == form.testSTMT
    IN /\ generations < MaxGenerations
       /\ testScaffoldSFilePath' = filename
       /\ whenString' = whenStringOf(testing)
       /\ testScaffoldView' = ScaffoldText(location, featureFileName, testing,
                                           whenString', givenStmts, thenStmts)
       /\ testScaffoldStringSave' = testScaffoldView'
       /\ generateFeatureFile(featureFileName, testing, givenStmts, thenStmts)
       /\ fileStringsInitialized' = TRUE
       /\ request' = form
       /\ generations' = generations + 1
       /\ lastCall' = "generateTemplateFile"
       /\ raised' = "none"
       /\ handedOff' = <<>>
       /\ UNCHANGED sanitizerVars

-----------------------------------------------------------------------------
(* downloadStringAsFile and downloadFiles, lines 65-75 and 162-167 *)

downloadStringAsFile(content, filename, mimeType) ==
    [content |-> content, filename |-> filename, mimeType |-> mimeType]

\* downloadFiles without the test of line 163.
DownloadAllowedAlways == TRUE

\* Line 163.
DownloadAllowed == fileStringsInitialized

\* Line 165 naming the feature file after the scaffold's path.
FeatureDownloadNameOfScaffold == testScaffoldSFilePath \o <<".feature">>

\* Line 165: featureFilepath+".feature"
FeatureDownloadName == featureFilepath \o <<".feature">>

\* Line 164: "test_"+testScaffoldSFilePath+".py"
ScaffoldDownloadName == <<"test_">> \o testScaffoldSFilePath \o <<".py">>

downloadFiles ==
    /\ handedOff' =
         IF DownloadAllowed
         THEN <<downloadStringAsFile(testScaffoldStringSave, ScaffoldDownloadName, "text/plain"),
                downloadStringAsFile(featureFileString, FeatureDownloadName, "text/plain")>>
         ELSE <<>>
    /\ lastCall' = "downloadFiles"
    /\ raised' = "none"
    /\ UNCHANGED <<cache, page, request, featureArgs, generations, memo, sanitizerVars>>

-----------------------------------------------------------------------------
(* The form: what the user can have entered when Generate is clicked *)

TestValues == {<<>>, <<" ">>, <<"a", " ", "b">>, <<"c", ":">>}
TestFilenameValues == {<<"s">>, <<"t">>}
FeatureFilenameValues == {<<"f">>, <<"s">>}
LocationValues == {<<"x">>}

Forms ==
    [checked : SUBSET (Range(givenCheckboxes) \cup Range(thenCheckboxes)),
     testFilenameSTMT : TestFilenameValues,
     featureFilenameSTMT : FeatureFilenameValues,
     locationSTMT : LocationValues,
     testSTMT : TestValues]

\* The page as loaded: no box checked, every field empty.
EmptyForm ==
    [checked |-> {}, testFilenameSTMT |-> <<>>, featureFilenameSTMT |-> <<>>,
     locationSTMT |-> <<>>, testSTMT |-> <<>>]

NoFeatureArgs ==
    [filename |-> <<>>, when |-> <<>>, givenStmts |-> <<>>, thenStmts |-> <<>>]

NoMemo ==
    [taken |-> FALSE, request |-> EmptyForm, feature |-> <<>>, scaffold |-> <<>>,
     disturbed |-> FALSE]

-----------------------------------------------------------------------------
(* The page: Generate and Download buttons *)

\* Lines 5-9, before any handler has run.
InitPage ==
    /\ featureFileString = <<>>
    /\ testScaffoldStringSave = <<>>
    /\ featureFilepath = <<>>
    /\ testScaffoldSFilePath = <<>>
    /\ fileStringsInitialized = FALSE
    /\ whenString = <<>>
    /\ featureFileView = <<>>
    /\ testScaffoldView = <<>>
    /\ handedOff = <<>>
    /\ raised = "none"
    /\ lastCall = "none"
    /\ request = EmptyForm
    /\ featureArgs = NoFeatureArgs
    /\ generations = 0
    /\ memo = NoMemo

Init ==
    /\ InitPage
    /\ text = <<>>
    /\ identifier = <<>>
    /\ sanitized = FALSE

Generate == \E form \in Forms : generateTemplateFile(form) /\ UNCHANGED memo

Download == downloadFiles

Next == Generate \/ Download

Spec == Init /\ [][Next]_vars

-----------------------------------------------------------------------------
(* Regeneration: generations only, one of them remembered for comparison *)

RegenForms ==
    {form \in Forms : /\ form.checked \subseteq {"givenLoggedInto", "reportCVSS"}
                      /\ form.testFilenameSTMT = <<"s">>
                      /\ form.featureFilenameSTMT = <<"f">>}

\* memo after a generation from form: kept, with a note of whether a different
\* request came after it.
Kept(form) ==
    IF memo.taken /\ form # memo.request
    THEN [memo EXCEPT !.disturbed = TRUE]
    ELSE memo

GenerateAndKeep == \E form \in RegenForms :
    generateTemplateFile(form) /\ memo' = Kept(form)

GenerateAndRemember == \E form \in RegenForms :
    /\ generateTemplateFile(form)
    /\ memo' = [taken |-> TRUE, request |-> form, feature |-> featureFileString',
                scaffold |-> testScaffoldStringSave', disturbed |-> FALSE]

RegenNext == GenerateAndKeep \/ GenerateAndRemember

RegenSpec == Init /\ [][RegenNext]_vars

-----------------------------------------------------------------------------
(* generateFeatureFile called on its own, with any id lists *)

DirectGivenIds == {"givenLoginPageDisplayed", "givenLoggedInto", "notRegistered"}
DirectThenIds == {"reportCVSS", "notRegistered"}
DirectWhenValues == {<<"a">>, <<"a", " ", "b">>}
DirectFilenameValues == {<<"f">>}

CallGenerateFeatureFile ==
    \E filename \in DirectFilenameValues, when \in DirectWhenValues,
       givenStmts \in SeqsUpTo(DirectGivenIds, MaxGiven),
       thenStmts \in SeqsUpTo(DirectThenIds, MaxThen) :
        /\ generateFeatureFile(filename, when, givenStmts, thenStmts)
        /\ lastCall' = "generateFeatureFile"
        /\ raised' = "none"
        /\ handedOff' = <<>>
        /\ UNCHANGED <<testScaffoldStringSave, testScaffoldSFilePath,
                       fileStringsInitialized, whenString, testScaffoldView,
                       request, generations, memo, sanitizerVars>>

FeatureNext == CallGenerateFeatureFile

FeatureSpec == Init /\ [][FeatureNext]_vars

-----------------------------------------------------------------------------
(* The sanitizer on its own, on every text up to MaxLen characters *)

Alphabet == {"a", "_", " ", ",", ":", ";"}

InitSanitize ==
    /\ InitPage
    /\ text \in SeqsUpTo(Alphabet, MaxLen)
    /\ identifier = <<>>
    /\ sanitized = FALSE

RunSanitize ==
    /\ ~sanitized
    /\ identifier' = sanitize(text)
    /\ sanitized' = TRUE
    /\ UNCHANGED <<cache, page, handedOff, raised, lastCall, request, featureArgs,
                   generations, memo, text>>

SanitizeSpec == InitSanitize /\ [][RunSanitize]_vars

-----------------------------------------------------------------------------
(* Reading the generated texts back *)

RECURSIVE LinesFrom(_, _)
LinesFrom(rest, current) ==
    IF rest = <<>> THEN <<current>>
    ELSE IF Head(rest) = "\n" THEN <<current>> \o LinesFrom(Tail(rest), <<>>)
    ELSE LinesFrom(Tail(rest), Append(current, Head(rest)))

\* The lines of a text: its tokens between line feeds.
Lines(t) == LinesFrom(t, <<>>)

StartsWith(line, token) == line # <<>> /\ Head(line) = token

LinesStarting(t, token) ==
    LET starts(line) == StartsWith(line, token) IN SelectSeq(Lines(t), starts)

\* The tokens of t that belong to S, in the order they occur.
TokensIn(t, S) == LET inS(token) == token \in S IN SelectSeq(t, inS)

\* The places of t that hold a token of S.
PlacesOf(t, S) == {i \in 1..Len(t) : t[i] \in S}

\* The first place of t that holds token.
FirstPlace(t, token) ==
    CHOOSE i \in 1..Len(t) : t[i] = token /\ \A j \in 1..(i - 1) : t[j] # token

GivenTemplates == {givenMapping[id] : id \in DOMAIN givenMapping}
ThenTemplates == {thenMapping[id] : id \in DOMAIN thenMapping}

RequestGiven == CheckedIn(givenCheckboxes, request.checked)
RequestThen == CheckedIn(thenCheckboxes, request.checked)

IsBlank(t) == \A i \in 1..Len(t) : t[i] = " "

-----------------------------------------------------------------------------
(* Export before any generation *)

-----------------------------------------------------------------------------
(* Export after generation *)

ExpectedScaffold(form) ==
    downloadStringAsFile(
        ScaffoldText(form.locationSTMT, form.featureFilenameSTMT, form.testSTMT,
                     whenStringOf(form.testSTMT),
                     CheckedIn(givenCheckboxes, form.checked),
                     CheckedIn(thenCheckboxes, form.checked)),
        <<"test_">> \o form.testFilenameSTMT \o <<".py">>, "text/plain")

ExpectedFeature(form) ==
    downloadStringAsFile(
        FeatureFileText(form.testSTMT, CheckedIn(givenCheckboxes, form.checked),
                        CheckedIn(thenCheckboxes, form.checked)),
        form.featureFilenameSTMT \o <<".feature">>, "text/plain")

\* C2: once a generation has completed, an export hands off exactly the scaffold
\* artifact and the feature artifact of the most recent generation request
\* (content and file name of both), and an export step leaves the cache unchanged.
C2_ExportHandsOffLatestPair ==
    /\ []((lastCall = "downloadFiles" /\ generations > 0)
            => handedOff = <<ExpectedScaffold(request), ExpectedFeature(request)>>)
    /\ [][lastCall' = "downloadFiles" => UNCHANGED cache]_vars

C2_Witness ==
    /\ lastCall = "downloadFiles"
    /\ generations >= 2
    /\ Len(handedOff) = 2
    /\ handedOff[2].filename # handedOff[1].filename

-----------------------------------------------------------------------------
(* Rejections the specification asks for *)

HasUnknownId(args) ==
    \E id \in Range(args.givenStmts) \cup Range(args.thenStmts) :
        id \notin DOMAIN givenThenToFeatureFileMapping

\* C3 as stated: a generation whose selection holds an id without registry entry
\* ends with UnknownClauseError and neither emits nor caches any text, nor sets
\* the initialized flag.
C3_UnknownIdRejected ==
    [][(lastCall' = "generateFeatureFile" /\ HasUnknownId(featureArgs'))
         => (raised' = "UnknownClauseError"
             /\ UNCHANGED <<cache, featureFileView, testScaffoldView>>)]_vars

\* C4 as stated: a generation whose trigger text is empty or blank ends with
\* EmptyTriggerError before anything is composed or cached.
C4_BlankTriggerRejected ==
    [][(generations' = generations + 1 /\ IsBlank(request'.testSTMT))
         => (raised' = "EmptyTriggerError"
             /\ UNCHANGED <<cache, featureFileView, testScaffoldView>>)]_vars

-----------------------------------------------------------------------------
(* The feature text *)

\* C5: when every selected id is registered, the Given lines of the feature text
\* are, in order and with repetitions, the phrases of givenStmts, the Then lines
\* those of thenStmts; with no given the Background header is followed by the
\* blank line at once, and with no then the text ends with the Scenario line
\* and the When line.
C5_FeatureLinesFollowSelection ==
    (lastCall = "generateFeatureFile" /\ ~HasUnknownId(featureArgs)) =>
        LET g == featureArgs.givenStmts
            th == featureArgs.thenStmts
            ls == Lines(featureFileString)
            b == FirstPlace(ls, <<"  Background:">>)
        IN /\ LinesStarting(featureFileString, "    Given ")
                = [i \in 1..Len(g) |-> <<"    Given ", givenThenToFeatureFileMapping[g[i]]>>]
           /\ LinesStarting(featureFileString, "    Then ")
                = [i \in 1..Len(th) |-> <<"    Then ", givenThenToFeatureFileMapping[th[i]]>>]
           /\ \A i \in 1..Len(g) : StartsWith(ls[b + i], "    Given ")
           /\ ls[b + Len(g) + 1] = <<>>
           /\ ls[b + Len(g) + 2] = <<"  Scenario:">> \o featureArgs.when
           /\ ls[b + Len(g) + 3] = <<"    When ">> \o featureArgs.when
           /\ th = <<>> => Len(ls) = b + Len(g) + 3

C5_Witness ==
    /\ lastCall = "generateFeatureFile"
    /\ featureArgs.givenStmts = <<"givenLoggedInto", "givenLoggedInto">>
    /\ featureArgs.thenStmts = <<"reportCVSS", "reportCVSS">>
    /\ Len(LinesStarting(featureFileString, "    Given ")) = 2

-----------------------------------------------------------------------------
(* Regeneration *)

\* C6: a generation from the request of a remembered earlier generation yields
\* the feature text and the scaffold text that generation yielded, whatever was
\* generated before or in between.
C6_SameRequestSameArtifacts ==
    (memo.taken /\ request = memo.request)
        => (featureFileString = memo.feature /\ testScaffoldStringSave = memo.scaffold)

C6_Witness ==
    /\ memo.taken
    /\ memo.disturbed
    /\ request = memo.request
    /\ generations = 3
    /\ request.testSTMT = <<"a", " ", "b">>

-----------------------------------------------------------------------------
(* The sanitizer *)

Separators == {" ", ",", ":", ";"}

\* C7: the identifier sanitize returns holds no space, comma, colon or semicolon.
C7_SanitizedHasNoSeparator ==
    sanitized => \A i \in 1..Len(identifier) : identifier[i] \notin Separators

C7_Witness ==
    /\ sanitized
    /\ Cardinality({i \in 1..Len(text) : text[i] = " "}) >= 2
    /\ \E i \in 1..Len(text) : text[i] \in {",", ":", ";"}

\* C8 as stated: sanitize puts an underscore in the place of every space, comma,
\* colon and semicolon, so a non-empty text gives a non-empty identifier.
C8_SeparatorsBecomeUnderscores ==
    sanitized =>
        /\ identifier = [i \in 1..Len(text) |->
                            IF text[i] \in Separators THEN "_" ELSE text[i]]
        /\ text # <<>> => identifier # <<>>

-----------------------------------------------------------------------------
(* The scaffold text and its pairing with the feature text *)

\* C9: the scaffold starts with the preamble; its given blocks are the templates
\* of the request's given ids in request order and all come before the scenario
\* decorator and the when step; its then blocks are the templates of the
\* request's then ids in request order and all come after; and the i-th given
\* (then) block and the i-th Given (Then) line of the feature text belong to
\* one clause id.
C9_ScaffoldOrderAlignedWithFeature ==
    generations > 0 =>
        LET sc == testScaffoldStringSave
            givenBlocks == TokensIn(sc, GivenTemplates)
            thenBlocks == TokensIn(sc, ThenTemplates)
            givenLines == LinesStarting(featureFileString, "    Given ")
            thenLines == LinesStarting(featureFileString, "    Then ")
            decorator == FirstPlace(sc, "@pytest_bdd.scenario('tests/")
            step == FirstPlace(sc, "@when('")
        IN /\ sc[1] = generalMapping.generic
           /\ givenBlocks = [i \in 1..Len(RequestGiven) |-> givenMapping[RequestGiven[i]]]
           /\ thenBlocks = [i \in 1..Len(RequestThen) |-> thenMapping[RequestThen[i]]]
           /\ \A i \in PlacesOf(sc, GivenTemplates) : 1 < i /\ i < decorator
           /\ decorator < step
           /\ \A i \in PlacesOf(sc, ThenTemplates) : step < i
           /\ Len(givenLines) = Len(givenBlocks)
           /\ Len(thenLines) = Len(thenBlocks)
           /\ \A i \in 1..Len(givenBlocks) : \E id \in DOMAIN givenMapping :
                 /\ givenBlocks[i] = givenMapping[id]
                 /\ givenLines[i] = <<"    Given ", givenThenToFeatureFileMapping[id]>>
           /\ \A i \in 1..Len(thenBlocks) : \E id \in DOMAIN thenMapping :
                 /\ thenBlocks[i] = thenMapping[id]
                 /\ thenLines[i] = <<"    Then ", givenThenToFeatureFileMapping[id]>>

C9_Witness ==
    /\ generations > 0
    /\ Len(RequestGiven) >= 3
    /\ Len(RequestThen) = 1
    /\ Len(TokensIn(testScaffoldStringSave, GivenTemplates)) >= 3

\* C10: after a generation, the scenario decorator of the scaffold names the
\* feature file under the name the cached feature artifact is exported with, and
\* cites as scenario title the text that is the title of the Scenario line and
\* the text of the When line of the cached feature text.
C10_ScaffoldCitesPairedFeature ==
    generations > 0 =>
        LET sc == testScaffoldStringSave
            slash == FirstPlace(sc, "/")
            ext == FirstPlace(sc, ".feature','")
            close == FirstPlace(sc, "',features_base_dir='')")
            citedName == SubSeq(sc, slash + 1, ext - 1)
            citedTitle == SubSeq(sc, ext + 1, close - 1)
        IN /\ FirstPlace(sc, "@pytest_bdd.scenario('tests/") < slash
           /\ slash < ext
           /\ ext < close
           /\ FeatureDownloadName = citedName \o <<".feature">>
           /\ LinesStarting(featureFileString, "  Scenario:") = << <<"  Scenario:">> \o citedTitle >>
           /\ LinesStarting(featureFileString, "    When ") = << <<"    When ">> \o citedTitle >>

C10_Witness ==
    /\ generations > 0
    /\ request.testSTMT = <<"a", " ", "b">>
    /\ request.featureFilenameSTMT = <<"f">>
    /\ request.testFilenameSTMT = <<"s">>
    /\ FeatureDownloadName = <<"f", ".feature">>

====
